---- MODULE Spec2Model ----
(***************************************************************************)
(* The Maybe type of perhaps-ts as documented in the docs pages             *)
(* "Maybe Type Library" (src/unnamed/part_003) and "This is Perhaps"        *)
(* (src/unnamed/part_001): construction, inspection, extraction, default    *)
(* fallback, conditional extraction into an output object, and equality.    *)
(*                                                                         *)
(* A caller owns a pool of Maybe instances and one output object; every     *)
(* action is one call of the documented API, and the call with its result   *)
(* is recorded in `call`.                                                   *)
(*                                                                         *)
(* Specifications: Spec (a caller constructing and using instances),        *)
(* SpecEq and SpecPair (results of calls on sample instances side by side), *)
(* SpecCaller (checks before extraction, try/catch), SpecFind (findItem),   *)
(* SpecFetch (fetchData), SpecReaders (callbacks sharing instances).        *)
(*                                                                         *)
(* The rest of the site: the theme selector of the header                   *)
(* (ThemeSelect.astro, SpecTheme), and the PHP classes of two blog posts:   *)
(* BankAccount (SpecBank), Book and Library (SpecLibrary), SudokuSolver     *)
(* (SpecSudoku, and SpecSolve with fairness of the solver's steps).         *)
(***************************************************************************)
EXTENDS Integers, Sequences, FiniteSets, TLC

\* ---------------------------------------------------------------- bounds
MaxVal == 3         \* payloads are the numbers 1..MaxVal
MaxInst == 2        \* instances the caller keeps at once
MaxErrs == 2        \* extractions on a Nothing instance the caller attempts
MaxLen == 3         \* length of the arrays findItem searches
MaxFetch == 2       \* fetchData calls in flight at once
MaxReaders == 2     \* callbacks that read the same instances
MaxClicks == 4      \* clicks on the theme button
MaxAmount == 4      \* largest amount passed to deposit and withdraw
MaxBalance == 9     \* deposits are made while the balance stays within this
MaxBooks == 2       \* ISBNs the library is asked about
MaxOpen == 3        \* cells of the solved sample grid that the input may change

\* ------------------------------------------------------------ data model
\* the content of a field that was never set (`value?: T`)
undefined == 0

Values == 1..MaxVal

Payloads == Values \cup {undefined}

\* the field names of an output object: `value` (default) and `data`
Keys == {"value", "data"}

\* To(out) without a key writes out.value
DefaultKey == "value"

\* `const output = {}`
EmptyOutput == [k \in Keys |-> undefined]

Outputs == [Keys -> Payloads]

\* the one error the library throws
NothingError == "Maybe: Attempted to access value of Nothing"

NoError == "none"

\* ------------------------------------------------------------ Maybe<T>
\* Maybe.Just(value): a Just instance containing the provided value
Just(value) == [just |-> TRUE, value |-> value]

\* variant: a Nothing instance that keeps a value in its value field
NothingStale == [just |-> FALSE, value |-> 1]

\* Maybe.Nothing<T>(): a Nothing instance with no value
Nothing == [just |-> FALSE, value |-> undefined]

Maybes == {Just(v) : v \in Values} \cup {Nothing}

\* IsJust(): true if the instance is Just, otherwise false
IsJust(m) == m.just

\* variant: IsNothing answers as IsJust does (copied body, negation lost)
IsNothingAsIsJust(m) == m.just

\* variant: IsNothing never reports a Nothing
IsNothingNever(m) == FALSE

\* IsNothing(): true if the instance is Nothing, otherwise false
IsNothing(m) == ~m.just

\* variant: the value is dropped on the way out of a Just
FromJustDropsValue(m) ==
  IF m.just THEN [err |-> NoError, ret |-> undefined]
  ELSE [err |-> NothingError, ret |-> undefined]

\* variant: no presence check, the value field is returned as it is
FromJustUnchecked(m) == [err |-> NoError, ret |-> m.value]

\* variant: the presence check is inverted
FromJustInverted(m) ==
  IF ~m.just THEN [err |-> NoError, ret |-> m.value]
  ELSE [err |-> NothingError, ret |-> undefined]

\* FromJust(): the value if the instance is Just, otherwise throws
FromJust(m) ==
  IF IsJust(m) THEN [err |-> NoError, ret |-> m.value]
  ELSE [err |-> NothingError, ret |-> undefined]

\* variant: ToChecked hands out the value field without the check
ToCheckedNoThrow(m) == [err |-> NoError, ret |-> m.value]

\* ToChecked(): alias for FromJust
ToChecked(m) == FromJust(m)

\* variant: the default wins over the value
FromMaybeAlwaysDefault(m, defaultValue) == defaultValue

\* FromMaybe(defaultValue): the value if Just, otherwise the default
FromMaybe(m, defaultValue) == IF IsJust(m) THEN m.value ELSE defaultValue

\* variant: a field that already holds a value is not overwritten
ToKeepsOld(m, out, key) ==
  IF m.just
  THEN [ret |-> TRUE,
        out |-> IF out[key] = undefined THEN [out EXCEPT ![key] = m.value] ELSE out]
  ELSE [ret |-> FALSE, out |-> out]

\* variant: the field is assigned before the presence check
ToWritesFirst(m, out, key) ==
  [ret |-> m.just, out |-> [out EXCEPT ![key] = m.value]]

\* variant: out.value is written whatever the key is
ToAlsoValue(m, out, key) ==
  IF m.just
  THEN [ret |-> TRUE, out |-> [out EXCEPT ![key] = m.value, !["value"] = m.value]]
  ELSE [ret |-> FALSE, out |-> out]

\* variant: the field is assigned and true returned without a check
ToAlwaysTrue(m, out, key) ==
  [ret |-> TRUE, out |-> [out EXCEPT ![key] = m.value]]

\* To(out, key): if Just, sets out[key] to the value and returns true,
\* otherwise returns false
To(m, out, key) ==
  IF IsJust(m) THEN [ret |-> TRUE, out |-> [out EXCEPT ![key] = m.value]]
  ELSE [ret |-> FALSE, out |-> out]

\* variant: only two Just instances can be equal
equalsJustOnly(m, other) == m.just /\ other.just /\ m.value = other.value

\* variant: the variant of `other` is not looked at when this is Nothing
equalsOneSided(m, other) == ~m.just \/ (other.just /\ m.value = other.value)

\* equals(other): both Nothing, or both Just with equal payloads
equals(m, other) ==
  /\ IsJust(m) = IsJust(other)
  /\ (~IsJust(m) \/ m.value = other.value)

\* variant: notEquals only compares the variants
notEqualsTagOnly(m, other) == m.just # other.just

\* notEquals(other): true if the other instance is not equal
notEquals(m, other) == ~equals(m, other)

\* ----------------------------------------------------------------- state
VARIABLES
  maybes,     \* the instances constructed so far, in construction order
  made,       \* for each instance, the constructor call that made it
  output,     \* the caller's output object
  outputPre,  \* the output object as it was when the last call started
  call,       \* the last API call: operation, arguments, result, error
  eqRes,      \* results of the equals calls made on three sample instances
  neqRes,     \* results of the notEquals calls made on two sample instances
  extracted,  \* outcomes of FromJust and ToChecked on two sample instances
  checked,    \* the instances an IsJust/IsNothing check has shown to be Just
  offending,  \* number of FromJust/ToChecked calls made on Nothing instances
  thrown,     \* number of errors that reached the caller's catch blocks
  find,       \* one findItem call: its arguments, its result, what was logged
  fetches,    \* the fetchData calls made so far, each with its promise
  readerCall, \* for each reading callback, the last call it made
  localStorage, \* ThemeSelect: whether localStorage exists, and the stored item
  matches,    \* ThemeSelect: matchMedia("(prefers-color-scheme: light)").matches
  dataset,    \* ThemeSelect: document.documentElement.dataset.theme
  iconClass,  \* ThemeSelect: className of the button's icon span
  themeLog,   \* ThemeSelect: the last handler run, and the state it started in
  balance,    \* BankAccount: $balance
  transactions, \* BankAccount: $transactions
  bankLog,    \* BankAccount: the last call, its outcome, the accepted totals
  books,      \* Library: $books, by ISBN
  libraryLog, \* Library: the last call, its outcome, the last accepted call per book
  sudoku,     \* SudokuSolver: $sudoku
  frames,     \* SudokuSolver: the solveHelper calls in progress, innermost last
  solveLog    \* SudokuSolver: the input grid, where the search is, its result

\* the state of the Maybe examples
maybeVars == <<maybes, made, output, outputPre, call, eqRes, neqRes, extracted,
               checked, offending, thrown, find, fetches, readerCall>>

\* the theme selector of the site header
themeVars == <<localStorage, matches, dataset, iconClass, themeLog>>

\* the BankAccount object of the encapsulation example
bankVars == <<balance, transactions, bankLog>>

\* the Library object of the objects example
libraryVars == <<books, libraryLog>>

\* the SudokuSolver object of the backtracking example
sudokuVars == <<sudoku, frames, solveLog>>

\* the state outside the Maybe examples
siteVars == <<themeVars, bankVars, libraryVars, sudokuVars>>

vars == <<maybeVars, siteVars>>

\* the state of the asynchronous examples
asyncVars == <<fetches, readerCall>>

\* what a caller that checks before it extracts keeps track of
callerVars == <<checked, offending, thrown>>

CallerIdle == checked = {} /\ offending = 0 /\ thrown = 0

\* the results of equals calls
eqVars == <<eqRes>>

\* what the calls on the instance pool leave alone
restVars == <<eqVars, neqRes, extracted, callerVars, find, asyncVars, siteVars>>

\* a constructor call as the caller wrote it
MadeJust(v) == [ctor |-> "Just", arg |-> v]

MadeNothing == [ctor |-> "Nothing", arg |-> undefined]

Ctors == {MadeJust(v) : v \in Values} \cup {MadeNothing}

\* the instance a constructor call yields
Construct(c) == IF c.ctor = "Just" THEN Just(c.arg) ELSE Nothing

\* the three sample instances of the equality laws
Triple == {1, 2, 3}

NoEqRes == [p \in Triple \X Triple |-> "none"]

\* the two sample instances of the pairwise comparisons
Pair == {1, 2}

\* the two names of the unchecked extraction
ExtractOps == {"FromJust", "ToChecked"}

\* the outcome of an extraction: not called yet, a value, or an error
NotCalled == [done |-> FALSE, err |-> NoError, ret |-> undefined]

NoExtracted == [p \in Pair \X ExtractOps |-> NotCalled]

\* the record of one call; unused fields keep their neutral value
Call(op, self, other, arg, key, retVal, retBool, err) ==
  [op |-> op, self |-> self, other |-> other, arg |-> arg, key |-> key,
   retVal |-> retVal, retBool |-> retBool, err |-> err]

NoCall == Call("none", 0, 0, undefined, DefaultKey, undefined, FALSE, NoError)

\* ------------------------------------------------------------- findItem
\* the arrays searched: at most MaxLen items
Arrays == UNION {[1..n -> Values] : n \in 0..MaxLen}

\* a predicate, as the set of items it accepts
Predicates == SUBSET Values

\* variant: the loop gives up after the first item
findItemFirstOnly(array, predicate) ==
  IF Len(array) > 0 /\ array[1] \in predicate THEN Just(array[1]) ELSE Nothing

\* for (const item of array) { if (predicate(item)) return Just(item); }
\* return Nothing<T>();   -- the loop from position k on
RECURSIVE findItemFrom(_, _, _)
findItemFrom(array, predicate, k) ==
  IF k > Len(array) THEN Nothing
  ELSE IF array[k] \in predicate THEN Just(array[k])
  ELSE findItemFrom(array, predicate, k + 1)

\* findItem(array, predicate)
findItem(array, predicate) == findItemFrom(array, predicate, 1)

\* what the usage example prints: "Found: x" or "Item not found"
NotLogged == [line |-> "none", item |-> undefined]

FindIdle ==
  find = [pc |-> "idle", array |-> <<>>, predicate |-> {},
          result |-> Nothing, log |-> NotLogged]

\* ------------------------------------------------------------ fetchData
Readers == 1..MaxReaders

AsyncIdle ==
  /\ fetches = <<>>
  /\ readerCall = [r \in Readers |-> NoCall]

\* ---------------------------------------------------------- ThemeSelect
\* the JavaScript values that reach parseTheme: a string, null, false
Str(s) == [type |-> "string", val |-> s]

JsNull == [type |-> "null", val |-> ""]

JsFalse == [type |-> "boolean", val |-> "false"]

\* type Theme = "auto" | "dark" | "light"
Theme == {"auto", "dark", "light"}

\* the order in which the button cycles
themes == <<"light", "dark", "auto">>

\* what localStorage may hold under storageKey when the page loads: nothing,
\* something storeTheme wrote, or any other string ("system" stands for those)
StoredItems == {JsNull} \cup {Str(s) : s \in {"", "light", "dark", "auto", "system"}}

\* the icon span as the template renders it
IconTemplate == "icon"

NoThemeLog ==
  [pc |-> "idle", pending |-> FALSE, event |-> "none", applied |-> "none",
   matched |-> FALSE, clicks |-> 0, start |-> "auto",
   pre |-> [item |-> JsNull, dataset |-> "", iconClass |-> IconTemplate]]

ThemeIdle ==
  /\ localStorage = [defined |-> FALSE, item |-> JsNull]
  /\ matches = FALSE
  /\ dataset = ""
  /\ iconClass = IconTemplate
  /\ themeLog = NoThemeLog

\* ---------------------------------------------------------- BankAccount
NoBankLog ==
  [op |-> "none", amount |-> 0, thrown |-> "none",
   pre |-> [balance |-> 0, transactions |-> <<>>],
   deposited |-> 0, withdrawn |-> 0, accepted |-> 0]

\* `private array $transactions = []; private float $balance = 0;`
BankIdle ==
  /\ balance = 0
  /\ transactions = <<>>
  /\ bankLog = NoBankLog

\* -------------------------------------------------------- Book, Library
ISBNs == 1..MaxBooks

\* a Book, reduced to the fields the Library uses
Book(isbn, isAvailable) == [isbn |-> isbn, isAvailable |-> isAvailable]

\* the content of $books[$isbn] when the key is not set
NoBook == [isbn |-> 0, isAvailable |-> FALSE]

\* `private array $books = [];`
NoBooks == [isbn \in ISBNs |-> NoBook]

NoLibraryLog ==
  [op |-> "none", isbn |-> 0, thrown |-> "none", pre |-> NoBooks,
   constructed |-> [isbn \in ISBNs |-> FALSE],
   last |-> [isbn \in ISBNs |-> "none"]]

LibraryIdle ==
  /\ books = NoBooks
  /\ libraryLog = NoLibraryLog

\* --------------------------------------------------------- SudokuSolver
NoSolveLog ==
  [pc |-> "idle", input |-> <<>>, entry |-> <<>>, placed |-> 0, result |-> "none"]

SudokuIdle ==
  /\ sudoku = <<>>
  /\ frames = <<>>
  /\ solveLog = NoSolveLog

SiteIdle == ThemeIdle /\ BankIdle /\ LibraryIdle /\ SudokuIdle

Init ==
  /\ maybes = <<>>
  /\ made = <<>>
  /\ eqRes = NoEqRes
  /\ neqRes = NoEqRes
  /\ extracted = NoExtracted
  /\ CallerIdle
  /\ FindIdle
  /\ AsyncIdle
  /\ SiteIdle
  /\ output = EmptyOutput
  /\ outputPre = EmptyOutput
  /\ call = NoCall

Insts == 1..Len(maybes)

\* ---------------------------------------------------------------- actions
\* const m = Just(v)
CallJust(v) ==
  /\ Len(maybes) < MaxInst
  /\ maybes' = Append(maybes, Just(v))
  /\ made' = Append(made, MadeJust(v))
  /\ call' = Call("Just", Len(maybes) + 1, 0, v, DefaultKey, undefined, FALSE, NoError)
  /\ outputPre' = output
  /\ UNCHANGED <<output, restVars>>

\* const m = Nothing<T>()
CallNothing ==
  /\ Len(maybes) < MaxInst
  /\ maybes' = Append(maybes, Nothing)
  /\ made' = Append(made, MadeNothing)
  /\ call' = Call("Nothing", Len(maybes) + 1, 0, undefined, DefaultKey, undefined, FALSE, NoError)
  /\ outputPre' = output
  /\ UNCHANGED <<output, restVars>>

\* m.IsJust()
CallIsJust(i) ==
  /\ call' = Call("IsJust", i, 0, undefined, DefaultKey, undefined, IsJust(maybes[i]), NoError)
  /\ outputPre' = output
  /\ UNCHANGED <<maybes, made, output, restVars>>

\* m.IsNothing()
CallIsNothing(i) ==
  /\ call' = Call("IsNothing", i, 0, undefined, DefaultKey, undefined, IsNothing(maybes[i]), NoError)
  /\ outputPre' = output
  /\ UNCHANGED <<maybes, made, output, restVars>>

\* variant: FromJust moves the value out and leaves the instance empty
CallFromJustConsumes(i) ==
  /\ LET r == [err |-> IF maybes[i].just THEN NoError ELSE NothingError,
               ret |-> maybes[i].value]
     IN call' = Call("FromJust", i, 0, undefined, DefaultKey, r.ret, FALSE, r.err)
  /\ maybes' = [maybes EXCEPT ![i] = [just |-> FALSE, value |-> undefined]]
  /\ outputPre' = output
  /\ UNCHANGED <<made, output, restVars>>

\* m.FromJust(), inside try/catch
CallFromJust(i) ==
  /\ LET r == FromJust(maybes[i])
     IN call' = Call("FromJust", i, 0, undefined, DefaultKey, r.ret, FALSE, r.err)
  /\ outputPre' = output
  /\ UNCHANGED <<maybes, made, output, restVars>>

\* m.ToChecked(), inside try/catch
CallToChecked(i) ==
  /\ LET r == ToChecked(maybes[i])
     IN call' = Call("ToChecked", i, 0, undefined, DefaultKey, r.ret, FALSE, r.err)
  /\ outputPre' = output
  /\ UNCHANGED <<maybes, made, output, restVars>>

\* m.FromMaybe(d)
CallFromMaybe(i, d) ==
  /\ call' = Call("FromMaybe", i, 0, d, DefaultKey, FromMaybe(maybes[i], d), FALSE, NoError)
  /\ outputPre' = output
  /\ UNCHANGED <<maybes, made, output, restVars>>

\* m.To(output)
CallTo(i) ==
  /\ LET r == To(maybes[i], output, DefaultKey)
     IN /\ output' = r.out
        /\ call' = Call("To", i, 0, undefined, DefaultKey, undefined, r.ret, NoError)
  /\ outputPre' = output
  /\ UNCHANGED <<maybes, made, restVars>>

\* m.To(output, key)
CallToKey(i, key) ==
  /\ LET r == To(maybes[i], output, key)
     IN /\ output' = r.out
        /\ call' = Call("ToKey", i, 0, undefined, key, undefined, r.ret, NoError)
  /\ outputPre' = output
  /\ UNCHANGED <<maybes, made, restVars>>

\* m.equals(other)
CallEquals(i, j) ==
  /\ call' = Call("equals", i, j, undefined, DefaultKey, undefined, equals(maybes[i], maybes[j]), NoError)
  /\ outputPre' = output
  /\ UNCHANGED <<maybes, made, output, restVars>>

\* m.notEquals(other)
CallNotEquals(i, j) ==
  /\ call' = Call("notEquals", i, j, undefined, DefaultKey, undefined, notEquals(maybes[i], maybes[j]), NoError)
  /\ outputPre' = output
  /\ UNCHANGED <<maybes, made, output, restVars>>

\* const output = {}
NewOutput ==
  /\ output' = EmptyOutput
  /\ outputPre' = output
  /\ call' = Call("NewOutput", 0, 0, undefined, DefaultKey, undefined, FALSE, NoError)
  /\ UNCHANGED <<maybes, made, restVars>>

Next ==
  \/ \E v \in Values : CallJust(v)
  \/ CallNothing
  \/ \E i \in Insts : CallIsJust(i)
  \/ \E i \in Insts : CallIsNothing(i)
  \/ \E i \in Insts : CallFromJust(i)
  \/ \E i \in Insts : CallToChecked(i)
  \/ \E i \in Insts, d \in Values : CallFromMaybe(i, d)
  \/ \E i \in Insts : CallTo(i)
  \/ \E i \in Insts, key \in Keys : CallToKey(i, key)
  \/ \E i, j \in Insts : CallEquals(i, j)
  \/ \E i, j \in Insts : CallNotEquals(i, j)
  \/ NewOutput

Spec == Init /\ [][Next]_vars

\* ------------------------------------------------- the equality laws
\* three instances, each made by Just(v) or Nothing(), compared pairwise
InitEq ==
  /\ made \in [Triple -> Ctors]
  /\ maybes = [i \in Triple |-> Construct(made[i])]
  /\ output = EmptyOutput
  /\ outputPre = EmptyOutput
  /\ call = NoCall
  /\ eqRes = NoEqRes
  /\ neqRes = NoEqRes
  /\ extracted = NoExtracted
  /\ CallerIdle
  /\ FindIdle
  /\ AsyncIdle
  /\ SiteIdle

\* console.log(a.equals(b))
CompareEq(i, j) ==
  /\ eqRes' = [eqRes EXCEPT ![<<i, j>>] =
                 IF equals(maybes[i], maybes[j]) THEN "true" ELSE "false"]
  /\ UNCHANGED <<maybes, made, output, outputPre, call, neqRes, extracted, callerVars, find, asyncVars, siteVars>>

NextEq == \E i, j \in Triple : CompareEq(i, j)

SpecEq == InitEq /\ [][NextEq]_vars

\* ------------------------------------- two instances, calls side by side
\* two instances, each made by Just(v) or Nothing(); the caller keeps the
\* result of every comparison and extraction it makes on them
InitPair ==
  /\ made \in [Pair -> Ctors]
  /\ maybes = [i \in Pair |-> Construct(made[i])]
  /\ output = EmptyOutput
  /\ outputPre = EmptyOutput
  /\ call = NoCall
  /\ eqRes = NoEqRes
  /\ neqRes = NoEqRes
  /\ extracted = NoExtracted
  /\ CallerIdle
  /\ FindIdle
  /\ AsyncIdle
  /\ SiteIdle

\* console.log(a.notEquals(b))
CompareNeq(i, j) ==
  /\ neqRes' = [neqRes EXCEPT ![<<i, j>>] =
                  IF notEquals(maybes[i], maybes[j]) THEN "true" ELSE "false"]
  /\ UNCHANGED <<maybes, made, output, outputPre, call, eqRes, extracted, callerVars, find, asyncVars, siteVars>>

\* try { a.FromJust() } catch (error) { ... }
ExtractFromJust(i) ==
  /\ LET r == FromJust(maybes[i])
     IN extracted' = [extracted EXCEPT ![<<i, "FromJust">>] =
                        [done |-> TRUE, err |-> r.err, ret |-> r.ret]]
  /\ UNCHANGED <<maybes, made, output, outputPre, call, eqRes, neqRes, callerVars, find, asyncVars, siteVars>>

\* try { a.ToChecked() } catch (error) { ... }
ExtractToChecked(i) ==
  /\ LET r == ToChecked(maybes[i])
     IN extracted' = [extracted EXCEPT ![<<i, "ToChecked">>] =
                        [done |-> TRUE, err |-> r.err, ret |-> r.ret]]
  /\ UNCHANGED <<maybes, made, output, outputPre, call, eqRes, neqRes, callerVars, find, asyncVars, siteVars>>

NextPair ==
  \/ \E i, j \in Pair : CompareEq(i, j)
  \/ \E i, j \in Pair : CompareNeq(i, j)
  \/ \E i \in Pair : ExtractFromJust(i)
  \/ \E i \in Pair : ExtractToChecked(i)

SpecPair == InitPair /\ [][NextPair]_vars

\* ------------------------------------ a caller that checks and catches
\* two instances; the caller checks with IsJust/IsNothing, extracts inside
\* try/catch, and uses the other methods in between
InitCaller ==
  /\ made \in [Pair -> Ctors]
  /\ maybes = [i \in Pair |-> Construct(made[i])]
  /\ output = EmptyOutput
  /\ outputPre = EmptyOutput
  /\ call = NoCall
  /\ eqRes = NoEqRes
  /\ neqRes = NoEqRes
  /\ extracted = NoExtracted
  /\ CallerIdle
  /\ FindIdle
  /\ AsyncIdle
  /\ SiteIdle

\* if (m.IsJust()) ...
CheckIsJust(i) ==
  /\ LET r == IsJust(maybes[i])
     IN /\ call' = Call("IsJust", i, 0, undefined, DefaultKey, undefined, r, NoError)
        /\ checked' = IF r THEN checked \cup {i} ELSE checked
  /\ outputPre' = output
  /\ UNCHANGED <<maybes, made, output, eqVars, neqRes, extracted, offending, thrown, find, asyncVars, siteVars>>

\* if (m.IsNothing()) ... else ...
CheckIsNothing(i) ==
  /\ LET r == IsNothing(maybes[i])
     IN /\ call' = Call("IsNothing", i, 0, undefined, DefaultKey, undefined, r, NoError)
        /\ checked' = IF ~r THEN checked \cup {i} ELSE checked
  /\ outputPre' = output
  /\ UNCHANGED <<maybes, made, output, eqVars, neqRes, extracted, offending, thrown, find, asyncVars, siteVars>>

\* try { m.FromJust() } catch (error) { console.error(error.message) }
TryFromJust(i) ==
  /\ offending < MaxErrs
  /\ LET r == FromJust(maybes[i])
     IN /\ call' = Call("FromJust", i, 0, undefined, DefaultKey, r.ret, FALSE, r.err)
        /\ thrown' = IF r.err # NoError THEN thrown + 1 ELSE thrown
  /\ offending' = IF made[i].ctor = "Nothing" THEN offending + 1 ELSE offending
  /\ outputPre' = output
  /\ UNCHANGED <<maybes, made, output, eqVars, neqRes, extracted, checked, find, asyncVars, siteVars>>

\* try { m.ToChecked() } catch (error) { console.error(error.message) }
TryToChecked(i) ==
  /\ offending < MaxErrs
  /\ LET r == ToChecked(maybes[i])
     IN /\ call' = Call("ToChecked", i, 0, undefined, DefaultKey, r.ret, FALSE, r.err)
        /\ thrown' = IF r.err # NoError THEN thrown + 1 ELSE thrown
  /\ offending' = IF made[i].ctor = "Nothing" THEN offending + 1 ELSE offending
  /\ outputPre' = output
  /\ UNCHANGED <<maybes, made, output, eqVars, neqRes, extracted, checked, find, asyncVars, siteVars>>

NextCaller ==
  \/ \E i \in Pair : CheckIsJust(i)
  \/ \E i \in Pair : CheckIsNothing(i)
  \/ \E i \in Pair : TryFromJust(i)
  \/ \E i \in Pair : TryToChecked(i)
  \/ \E i \in Pair, d \in Values : CallFromMaybe(i, d)
  \/ \E i \in Pair : CallTo(i)
  \/ \E i \in Pair, key \in Keys : CallToKey(i, key)
  \/ \E i, j \in Pair : CallEquals(i, j)
  \/ \E i, j \in Pair : CallNotEquals(i, j)
  \/ NewOutput

SpecCaller == InitCaller /\ [][NextCaller]_vars

\* ------------------------------------------------- searching an array
\* what a findItem call leaves alone
poolVars == <<maybes, made, output, outputPre, call>>

PoolIdle ==
  /\ maybes = <<>>
  /\ made = <<>>
  /\ output = EmptyOutput
  /\ outputPre = EmptyOutput
  /\ call = NoCall

\* const numbers = [...]; with some predicate
InitFind ==
  /\ PoolIdle
  /\ eqRes = NoEqRes
  /\ neqRes = NoEqRes
  /\ extracted = NoExtracted
  /\ CallerIdle
  /\ AsyncIdle
  /\ SiteIdle
  /\ \E array \in Arrays, predicate \in Predicates :
       find = [pc |-> "call", array |-> array, predicate |-> predicate,
               result |-> Nothing, log |-> NotLogged]

\* const result = findItem(numbers, predicate)
RunFindItem ==
  /\ find.pc = "call"
  /\ find' = [find EXCEPT !.pc = "result",
                           !.result = findItem(find.array, find.predicate)]
  /\ UNCHANGED <<poolVars, eqVars, neqRes, extracted, callerVars, asyncVars, siteVars>>

\* if (result.IsJust()) console.log("Found:", result.FromJust())
LogFound ==
  /\ find.pc = "result"
  /\ IsJust(find.result)
  /\ find' = [find EXCEPT !.pc = "logged",
                           !.log = [line |-> "Found:", item |-> FromJust(find.result).ret]]
  /\ UNCHANGED <<poolVars, eqVars, neqRes, extracted, callerVars, asyncVars, siteVars>>

\* else console.log("Item not found")
LogNotFound ==
  /\ find.pc = "result"
  /\ ~IsJust(find.result)
  /\ find' = [find EXCEPT !.pc = "logged",
                           !.log = [line |-> "Item not found", item |-> undefined]]
  /\ UNCHANGED <<poolVars, eqVars, neqRes, extracted, callerVars, asyncVars, siteVars>>

NextFind == RunFindItem \/ LogFound \/ LogNotFound

SpecFind == InitFind /\ [][NextFind]_vars

\* ------------------------------------------- fetchData(url): Promise
\* what a fetchData call leaves alone
syncVars == <<poolVars, eqVars, neqRes, extracted, callerVars, find, siteVars>>

InitFetch ==
  /\ PoolIdle
  /\ eqRes = NoEqRes
  /\ neqRes = NoEqRes
  /\ extracted = NoExtracted
  /\ CallerIdle
  /\ FindIdle
  /\ AsyncIdle
  /\ SiteIdle

\* a fetchData call suspended at `await fetch(url)`
NewFetch ==
  [pc |-> "awaitFetch", fetched |-> "pending", read |-> "pending",
   body |-> undefined, promise |-> "pending", value |-> Nothing, told |-> "none"]

\* return m;  -- the async function's promise is fulfilled with m
Fulfil(f, m) == [f EXCEPT !.pc = "done", !.promise = "fulfilled", !.value = m]

\* variant: the error leaves the function, the promise is rejected
OnErrorRethrows(f) == [f EXCEPT !.pc = "done", !.promise = "rejected"]

\* catch (error) { return Nothing<string>(); }
OnError(f) == Fulfil(f, Nothing)

\* fetchData("https://api.example.com/data")
CallFetchData ==
  /\ Len(fetches) < MaxFetch
  /\ fetches' = Append(fetches, NewFetch)
  /\ UNCHANGED <<syncVars, readerCall>>

\* await fetch(url) throws
FetchThrows(k) ==
  /\ fetches[k].pc = "awaitFetch"
  /\ fetches' = [fetches EXCEPT ![k] = OnError([@ EXCEPT !.fetched = "threw"])]
  /\ UNCHANGED <<syncVars, readerCall>>

\* await fetch(url) yields a response; if (!response.ok) return Nothing
FetchResponds(k, ok) ==
  /\ fetches[k].pc = "awaitFetch"
  /\ fetches' = [fetches EXCEPT ![k] =
                   IF ~ok THEN Fulfil([@ EXCEPT !.fetched = "notOk"], Nothing)
                   ELSE [@ EXCEPT !.fetched = "ok", !.pc = "awaitText"]]
  /\ UNCHANGED <<syncVars, readerCall>>

\* await response.text() throws
TextThrows(k) ==
  /\ fetches[k].pc = "awaitText"
  /\ fetches' = [fetches EXCEPT ![k] = OnError([@ EXCEPT !.read = "threw"])]
  /\ UNCHANGED <<syncVars, readerCall>>

\* const data = await response.text(); return Just(data)
TextResolves(k, data) ==
  /\ fetches[k].pc = "awaitText"
  /\ fetches' = [fetches EXCEPT ![k] =
                   Fulfil([@ EXCEPT !.read = "read", !.body = data], Just(data))]
  /\ UNCHANGED <<syncVars, readerCall>>

\* .then((maybeData) => { if (maybeData.IsJust()) ... else ... })
ThenCallback(k) ==
  /\ fetches[k].promise = "fulfilled"
  /\ fetches[k].told = "none"
  /\ fetches' = [fetches EXCEPT ![k].told =
                   IF IsJust(fetches[k].value) THEN "Fetched Data:"
                   ELSE "Failed to fetch data"]
  /\ UNCHANGED <<syncVars, readerCall>>

Fetches == 1..Len(fetches)

NextFetch ==
  \/ CallFetchData
  \/ \E k \in Fetches : FetchThrows(k)
  \/ \E k \in Fetches, ok \in BOOLEAN : FetchResponds(k, ok)
  \/ \E k \in Fetches : TextThrows(k)
  \/ \E k \in Fetches, data \in Values : TextResolves(k, data)
  \/ \E k \in Fetches : ThenCallback(k)

SpecFetch == InitFetch /\ [][NextFetch]_vars

\* ------------------------------------- callbacks sharing two instances
\* two instances are handed to several callbacks; a callback runs one
\* method call at a time, and the calls of different callbacks interleave
InitReaders ==
  /\ made \in [Pair -> Ctors]
  /\ maybes = [i \in Pair |-> Construct(made[i])]
  /\ output = EmptyOutput
  /\ outputPre = EmptyOutput
  /\ call = NoCall
  /\ eqRes = NoEqRes
  /\ neqRes = NoEqRes
  /\ extracted = NoExtracted
  /\ CallerIdle
  /\ FindIdle
  /\ AsyncIdle
  /\ SiteIdle

\* what a reading callback leaves alone
readFrame == <<output, outputPre, call, eqVars, neqRes, extracted, callerVars,
               find, fetches, siteVars>>

\* maybeData.IsJust() in callback r
ReaderIsJust(r, i) ==
  /\ readerCall' = [readerCall EXCEPT ![r] =
       Call("IsJust", i, 0, undefined, DefaultKey, undefined, IsJust(maybes[i]), NoError)]
  /\ UNCHANGED <<maybes, made, readFrame>>

\* maybeData.IsNothing() in callback r
ReaderIsNothing(r, i) ==
  /\ readerCall' = [readerCall EXCEPT ![r] =
       Call("IsNothing", i, 0, undefined, DefaultKey, undefined, IsNothing(maybes[i]), NoError)]
  /\ UNCHANGED <<maybes, made, readFrame>>

\* variant: FromJust moves the value out and leaves the instance empty
ReaderFromJustConsumes(r, i) ==
  /\ readerCall' = [readerCall EXCEPT ![r] =
       Call("FromJust", i, 0, undefined, DefaultKey, maybes[i].value, FALSE,
            IF maybes[i].just THEN NoError ELSE NothingError)]
  /\ maybes' = [maybes EXCEPT ![i] = [just |-> FALSE, value |-> undefined]]
  /\ UNCHANGED <<made, readFrame>>

\* maybeData.FromJust() in callback r
ReaderFromJust(r, i) ==
  /\ LET x == FromJust(maybes[i])
     IN readerCall' = [readerCall EXCEPT ![r] =
          Call("FromJust", i, 0, undefined, DefaultKey, x.ret, FALSE, x.err)]
  /\ UNCHANGED <<maybes, made, readFrame>>

\* maybeData.FromMaybe(d) in callback r
ReaderFromMaybe(r, i, d) ==
  /\ readerCall' = [readerCall EXCEPT ![r] =
       Call("FromMaybe", i, 0, d, DefaultKey, FromMaybe(maybes[i], d), FALSE, NoError)]
  /\ UNCHANGED <<maybes, made, readFrame>>

\* maybeData.equals(other) in callback r
ReaderEquals(r, i, j) ==
  /\ readerCall' = [readerCall EXCEPT ![r] =
       Call("equals", i, j, undefined, DefaultKey, undefined,
            equals(maybes[i], maybes[j]), NoError)]
  /\ UNCHANGED <<maybes, made, readFrame>>

NextReaders ==
  \/ \E r \in Readers, i \in Pair : ReaderIsJust(r, i)
  \/ \E r \in Readers, i \in Pair : ReaderIsNothing(r, i)
  \/ \E r \in Readers, i \in Pair : ReaderFromJust(r, i)
  \/ \E r \in Readers, i \in Pair, d \in Values : ReaderFromMaybe(r, i, d)
  \/ \E r \in Readers, i, j \in Pair : ReaderEquals(r, i, j)

SpecReaders == InitReaders /\ [][NextReaders]_vars

\* ------------------------------------------------ the Maybe examples idle
MaybeIdle ==
  /\ PoolIdle
  /\ eqRes = NoEqRes
  /\ neqRes = NoEqRes
  /\ extracted = NoExtracted
  /\ CallerIdle
  /\ FindIdle
  /\ AsyncIdle

\* ---------------------------------------------------------- ThemeSelect
\* One <starlight-theme-select> element on a page.  The page loads with
\* some content of localStorage, the script constructs the element, and
\* then the user clicks the button and the operating system changes its
\* colour scheme in any order.

parseThemeDefaultsLight(theme) ==
  IF theme = Str("auto") \/ theme = Str("dark") \/ theme = Str("light")
    THEN theme.val
    ELSE "light"

parseTheme(theme) ==
  IF theme = Str("auto") \/ theme = Str("dark") \/ theme = Str("light")
    THEN theme.val
    ELSE "auto"

\* localStorage.getItem(storageKey): the stored string, or null
getItem == localStorage.item

loadThemeFallsBackDark ==
  parseTheme(IF localStorage.defined THEN getItem ELSE Str("dark"))

\* `typeof localStorage !== "undefined" && localStorage.getItem(storageKey)`
\* is false without localStorage
loadTheme ==
  parseTheme(IF localStorage.defined THEN getItem ELSE JsFalse)

storeTheme(theme) ==
  localStorage' =
    IF localStorage.defined
      THEN [localStorage EXCEPT
              !.item = Str(IF theme = "light" \/ theme = "dark" THEN theme ELSE "")]
      ELSE localStorage

getPreferredColorScheme == IF matches THEN "light" ELSE "dark"

\* the template literal `icon ${theme}`
IconOf(theme) == "icon " \o theme

updateButtonIcon(theme) == iconClass' = IconOf(theme)

onThemeChangeKeepsAuto(theme) ==
  /\ dataset' = theme
  /\ storeTheme(theme)
  /\ updateButtonIcon(theme)

onThemeChange(theme) ==
  /\ dataset' = IF theme = "auto" THEN getPreferredColorScheme ELSE theme
  /\ storeTheme(theme)
  /\ updateButtonIcon(theme)

\* Array.prototype.indexOf: the first index, from 0, or -1
indexOf(array, searchElement) ==
  IF \E i \in 1..Len(array) : array[i] = searchElement
    THEN (CHOOSE i \in 1..Len(array) :
            /\ array[i] = searchElement
            /\ \A j \in 1..(i - 1) : array[j] # searchElement) - 1
    ELSE -1

nextThemeSkipsOne(current) ==
  themes[((indexOf(themes, current) + 2) % Len(themes)) + 1]

\* currentIndex, nextIndex and nextTheme of the click listener
nextTheme(current) ==
  themes[((indexOf(themes, current) + 1) % Len(themes)) + 1]

\* what a handler finds when it starts
ThemePre == [item |-> localStorage.item, dataset |-> dataset, iconClass |-> iconClass]

\* the record of a handler run that called onThemeChange(theme)
Applied(event, theme) ==
  [themeLog EXCEPT !.pc = "ready", !.event = event, !.applied = theme,
                   !.matched = matches, !.pre = ThemePre]

InitTheme ==
  /\ MaybeIdle
  /\ BankIdle /\ LibraryIdle /\ SudokuIdle
  /\ \E defined \in BOOLEAN, item \in StoredItems :
       /\ defined \/ item = JsNull
       /\ localStorage = [defined |-> defined, item |-> item]
  /\ matches \in BOOLEAN
  /\ dataset \in {"", "light", "dark"}
  /\ iconClass = IconTemplate
  /\ themeLog = [NoThemeLog EXCEPT !.pc = "loading", !.start = loadTheme]

themeFrame == <<maybeVars, bankVars, libraryVars, sudokuVars>>

\* customElements.define upgrades the element: the constructor runs
Constructor ==
  /\ themeLog.pc = "loading"
  /\ onThemeChange(loadTheme)
  /\ themeLog' = Applied("constructor", loadTheme)
  /\ UNCHANGED <<matches, themeFrame>>

\* the click listener of the button
Click ==
  /\ themeLog.pc = "ready"
  /\ themeLog.clicks < MaxClicks
  /\ onThemeChange(nextTheme(loadTheme))
  /\ themeLog' = [Applied("click", nextTheme(loadTheme)) EXCEPT !.clicks = @ + 1]
  /\ UNCHANGED <<matches, themeFrame>>

\* the operating system switches between its light and dark schemes; the
\* media query list queues a change event
SchemeChanges ==
  /\ themeLog.pc = "ready"
  /\ matches' = ~matches
  /\ themeLog' = [themeLog EXCEPT !.pending = TRUE, !.event = "none"]
  /\ UNCHANGED <<localStorage, dataset, iconClass, themeFrame>>

MediaListenerAlways ==
  /\ themeLog.pending
  /\ onThemeChange("auto")
  /\ themeLog' = [Applied("change", "auto") EXCEPT !.pending = FALSE]
  /\ UNCHANGED <<matches, themeFrame>>

\* the change listener of the media query list
MediaListener ==
  /\ themeLog.pending
  /\ IF loadTheme = "auto"
       THEN /\ onThemeChange("auto")
            /\ themeLog' = [Applied("change", "auto") EXCEPT !.pending = FALSE]
       ELSE /\ UNCHANGED <<localStorage, dataset, iconClass>>
            /\ themeLog' = [themeLog EXCEPT !.pending = FALSE, !.event = "change",
                                            !.pre = ThemePre]
  /\ UNCHANGED <<matches, themeFrame>>

NextTheme == Constructor \/ Click \/ SchemeChanges \/ MediaListener

SpecTheme == InitTheme /\ [][NextTheme]_vars

\* ---------------------------------------------------------- BankAccount
\* One BankAccount object and a caller that deposits and withdraws.  Amounts
\* are whole numbers; -1 and 0 stand for the amounts the guards reject.
Amounts == -1..MaxAmount

\* `new Transaction($type, $amount, $description, $date)`: the constructor
\* declares `private DateTime $date`, so an argument of another class is a
\* TypeError and no object is made
Transaction(type, amount, date) ==
  IF date = "DateTime"
    THEN [thrown |-> "none", type |-> type, amount |-> amount]
    ELSE [thrown |-> "TypeError", type |-> type, amount |-> amount]

\* addTransaction passes `new DateTimeImmutable`, which is not a DateTime
addTransaction(list, type, amount) ==
  LET new == Transaction(type, amount, "DateTimeImmutable")
  IN  [thrown |-> new.thrown,
       transactions |-> IF new.thrown = "none"
                          THEN Append(list, [type |-> new.type, amount |-> new.amount])
                          ELSE list]

\* the account as a method finds it
This == [balance |-> balance, transactions |-> transactions]

Thrown(this, class) ==
  [balance |-> this.balance, transactions |-> this.transactions, thrown |-> class]

deposit(this, amount) ==
  IF amount <= 0
    THEN Thrown(this, "InvalidArgumentException")
    ELSE LET added == addTransaction(this.transactions, "deposit", amount)
         IN  [balance |-> this.balance + amount,
              transactions |-> added.transactions,
              thrown |-> added.thrown]

withdrawOverdraws(this, amount) ==
  IF amount <= 0
    THEN Thrown(this, "InvalidArgumentException")
    ELSE LET added == addTransaction(this.transactions, "withdrawal", amount)
         IN  [balance |-> this.balance - amount,
              transactions |-> added.transactions,
              thrown |-> added.thrown]

withdraw(this, amount) ==
  IF amount <= 0
    THEN Thrown(this, "InvalidArgumentException")
    ELSE IF amount > this.balance
      THEN Thrown(this, "Exception")
      ELSE LET added == addTransaction(this.transactions, "withdrawal", amount)
           IN  [balance |-> this.balance - amount,
                transactions |-> added.transactions,
                thrown |-> added.thrown]

\* what the caller knows after a call: a call is accepted when it returns
\* without throwing
BankLogged(op, amount, after) ==
  LET ok == after.thrown = "none"
  IN  [op |-> op, amount |-> amount, thrown |-> after.thrown, pre |-> This,
       deposited |-> bankLog.deposited + (IF ok /\ op = "deposit" THEN amount ELSE 0),
       withdrawn |-> bankLog.withdrawn + (IF ok /\ op = "withdraw" THEN amount ELSE 0),
       accepted |-> bankLog.accepted + (IF ok THEN 1 ELSE 0)]

InitBank ==
  /\ MaybeIdle
  /\ ThemeIdle /\ LibraryIdle /\ SudokuIdle
  /\ BankIdle

bankFrame == <<maybeVars, themeVars, libraryVars, sudokuVars>>

\* $account->deposit($amount, ...)
Deposit(amount) ==
  /\ balance + amount <= MaxBalance
  /\ LET after == deposit(This, amount)
     IN  /\ balance' = after.balance
         /\ transactions' = after.transactions
         /\ bankLog' = BankLogged("deposit", amount, after)
  /\ UNCHANGED bankFrame

\* $account->withdraw($amount, ...)
Withdraw(amount) ==
  /\ LET after == withdraw(This, amount)
     IN  /\ balance' = after.balance
         /\ transactions' = after.transactions
         /\ bankLog' = BankLogged("withdraw", amount, after)
  /\ UNCHANGED bankFrame

NextBank ==
  \/ \E amount \in Amounts : Deposit(amount)
  \/ \E amount \in Amounts : Withdraw(amount)

SpecBank == InitBank /\ [][NextBank]_vars

\* -------------------------------------------------------- Book, Library
\* One Library object and a caller that adds books, checks them out and
\* returns them by ISBN.
isset(array, key) == array[key] # NoBook

checkOutKeepsAvailable(book) ==
  IF ~book.isAvailable
    THEN [thrown |-> "Exception", book |-> book]
    ELSE [thrown |-> "none", book |-> book]

\* Book::checkOut
checkOut(book) ==
  IF ~book.isAvailable
    THEN [thrown |-> "Exception", book |-> book]
    ELSE [thrown |-> "none", book |-> [book EXCEPT !.isAvailable = FALSE]]

\* Book::returnBook
returnBook(book) == [thrown |-> "none", book |-> [book EXCEPT !.isAvailable = TRUE]]

\* Library::findAvailableBooks, as the keys array_filter keeps
findAvailableBooks == {isbn \in ISBNs : isset(books, isbn) /\ books[isbn].isAvailable}

InitLibrary ==
  /\ MaybeIdle
  /\ ThemeIdle /\ BankIdle /\ SudokuIdle
  /\ LibraryIdle

libraryFrame == <<maybeVars, themeVars, bankVars, sudokuVars>>

\* $library->addBook(new Book($isbn, ..., $isAvailable)); the last
\* constructor argument is true when it is left out
AddBook(isbn, isAvailable) ==
  /\ books' = [books EXCEPT ![isbn] = Book(isbn, isAvailable)]
  /\ libraryLog' = [libraryLog EXCEPT !.op = "addBook", !.isbn = isbn,
                      !.thrown = "none", !.pre = books,
                      !.constructed[isbn] = isAvailable,
                      !.last[isbn] = "none"]
  /\ UNCHANGED libraryFrame

\* a Library method that finds no book under $isbn
NotFound(op, isbn) ==
  /\ UNCHANGED books
  /\ libraryLog' = [libraryLog EXCEPT !.op = op, !.isbn = isbn,
                      !.thrown = "Exception", !.pre = books]

\* a Library method that called `method` of the book under $isbn
Forwarded(op, isbn, method, after) ==
  /\ books' = [books EXCEPT ![isbn] = after.book]
  /\ libraryLog' = [libraryLog EXCEPT !.op = op, !.isbn = isbn,
                      !.thrown = after.thrown, !.pre = books,
                      !.last[isbn] = IF after.thrown = "none" THEN method ELSE @]

\* $library->checkOutBook($isbn)
CheckOutBook(isbn) ==
  /\ IF ~isset(books, isbn)
       THEN NotFound("checkOutBook", isbn)
       ELSE Forwarded("checkOutBook", isbn, "checkOut", checkOut(books[isbn]))
  /\ UNCHANGED libraryFrame

\* $library->returnBook($isbn)
ReturnBook(isbn) ==
  /\ IF ~isset(books, isbn)
       THEN NotFound("returnBook", isbn)
       ELSE Forwarded("returnBook", isbn, "returnBook", returnBook(books[isbn]))
  /\ UNCHANGED libraryFrame

NextLibrary ==
  \/ \E isbn \in ISBNs, isAvailable \in BOOLEAN : AddBook(isbn, isAvailable)
  \/ \E isbn \in ISBNs : CheckOutBook(isbn)
  \/ \E isbn \in ISBNs : ReturnBook(isbn)

SpecLibrary == InitLibrary /\ [][NextLibrary]_vars

\* --------------------------------------------------------- SudokuSolver
\* One SudokuSolver object constructed with nine rows of nine numbers, and
\* one call of solve(); every step is one iteration or return of a
\* solveHelper call.  Rows and columns are numbered from 0 as in the code.

\* count($rows) for the grids of the post
n == 9

Index == 0..(n - 1)

\* the numbers solveHelper tries in an empty cell
Nums == 1..9

\* the example grid of the post with its empty cells filled in
Solved ==
  <<<<5, 3, 4, 6, 7, 8, 9, 1, 2>>,
    <<6, 7, 2, 1, 9, 5, 3, 4, 8>>,
    <<1, 9, 8, 3, 4, 2, 5, 6, 7>>,
    <<8, 5, 9, 7, 6, 1, 4, 2, 3>>,
    <<4, 2, 6, 8, 5, 3, 7, 9, 1>>,
    <<7, 1, 3, 9, 2, 4, 8, 5, 6>>,
    <<9, 6, 1, 5, 3, 7, 2, 8, 4>>,
    <<2, 8, 7, 4, 1, 9, 6, 3, 5>>,
    <<3, 4, 5, 2, 8, 6, 1, 7, 9>>>>

\* a PHP list as an array indexed from 0
Array(list) == [i \in 0..(Len(list) - 1) |-> list[i + 1]]

Rows(lists) == Array([i \in 1..Len(lists) |-> Array(lists[i])])

\* the cells in which an input grid may differ from the solved sample
OpenList == <<<<0, 6>>, <<0, 7>>, <<8, 6>>, <<4, 4>>>>

OpenCells == {OpenList[i] : i \in 1..(IF MaxOpen < Len(OpenList) THEN MaxOpen ELSE Len(OpenList))}

\* the grids a SudokuSolver is constructed with: the solved sample with any
\* number from 0 to 9 in each of the open cells
Inputs ==
  {[row \in Index |-> [col \in Index |->
      IF <<row, col>> \in OpenCells THEN given[<<row, col>>] ELSE Rows(Solved)[row][col]]] :
   given \in [OpenCells -> 0..9]}

canPlaceSkipsColumn(grid, row, col, num) ==
  /\ \A i \in 0..(n - 1) : ~(grid[row][i] = num)
  /\ LET startRow == row - (row % 3)
         startCol == col - (col % 3)
     IN  \A i, j \in 0..2 : grid[startRow + i][startCol + j] # num

canPlace(grid, row, col, num) ==
  /\ \A i \in 0..(n - 1) : ~(grid[row][i] = num \/ grid[i][col] = num)
  /\ LET startRow == row - (row % 3)
         startCol == col - (col % 3)
     IN  \A i, j \in 0..2 : grid[startRow + i][startCol + j] # num

\* the cells the two for loops of solveHelper would stop at
EmptyCells(grid) == {cell \in Index \X Index : grid[cell[1]][cell[2]] = 0}

\* the first of them in the order of the loops
FirstEmpty(grid) ==
  CHOOSE cell \in EmptyCells(grid) :
    \A other \in EmptyCells(grid) : cell[1] * n + cell[2] <= other[1] * n + other[2]

\* the solveHelper call that is running
Top == frames[Len(frames)]

InitSudoku ==
  /\ MaybeIdle
  /\ ThemeIdle /\ BankIdle /\ LibraryIdle
  /\ sudoku \in Inputs
  /\ frames = <<>>
  /\ solveLog = [NoSolveLog EXCEPT !.pc = "call", !.input = sudoku, !.entry = sudoku]

sudokuFrame == <<maybeVars, themeVars, bankVars, libraryVars>>

\* a solveHelper call starts and its loops stop at an empty cell
FindEmpty ==
  /\ solveLog.pc = "call"
  /\ EmptyCells(sudoku) # {}
  /\ frames' = Append(frames, [row |-> FirstEmpty(sudoku)[1], col |-> FirstEmpty(sudoku)[2],
                               num |-> 1, entry |-> sudoku])
  /\ solveLog' = [solveLog EXCEPT !.pc = "try"]
  /\ UNCHANGED <<sudoku, sudokuFrame>>

\* a solveHelper call starts and finds no empty cell: it returns true, so
\* does every call waiting for it, and solve() prints the grid
AllFilled ==
  /\ solveLog.pc = "call"
  /\ EmptyCells(sudoku) = {}
  /\ frames' = <<>>
  /\ solveLog' = [solveLog EXCEPT !.pc = "done", !.result = "solved"]
  /\ UNCHANGED <<sudoku, sudokuFrame>>

\* canPlace holds for $num: the number is placed and solveHelper called
Place ==
  /\ solveLog.pc = "try"
  /\ Top.num \in Nums
  /\ canPlace(sudoku, Top.row, Top.col, Top.num)
  /\ sudoku' = [sudoku EXCEPT ![Top.row][Top.col] = Top.num]
  /\ solveLog' = [solveLog EXCEPT !.pc = "call", !.placed = @ + 1]
  /\ UNCHANGED <<frames, sudokuFrame>>

\* canPlace fails for $num: the loop goes on with the next number
Skip ==
  /\ solveLog.pc = "try"
  /\ Top.num \in Nums
  /\ ~canPlace(sudoku, Top.row, Top.col, Top.num)
  /\ frames' = [frames EXCEPT ![Len(frames)].num = @ + 1]
  /\ UNCHANGED <<sudoku, solveLog, sudokuFrame>>

\* the numbers are used up: the call returns false, to the call that made
\* it or to solve(), which prints that no solution exists
ReturnFalse ==
  /\ solveLog.pc = "try"
  /\ Top.num \notin Nums
  /\ frames' = SubSeq(frames, 1, Len(frames) - 1)
  /\ solveLog' = [solveLog EXCEPT
                    !.pc = IF Len(frames) = 1 THEN "done" ELSE "returned",
                    !.entry = Top.entry,
                    !.result = IF Len(frames) = 1 THEN "no solution" ELSE @]
  /\ UNCHANGED <<sudoku, sudokuFrame>>

BacktrackKeepsNumber ==
  /\ solveLog.pc = "returned"
  /\ frames' = [frames EXCEPT ![Len(frames)].num = @ + 1]
  /\ solveLog' = [solveLog EXCEPT !.pc = "try"]
  /\ UNCHANGED <<sudoku, sudokuFrame>>

\* the call made after placing $num returned false: the cell is set back
\* to 0 and the loop goes on with the next number
Backtrack ==
  /\ solveLog.pc = "returned"
  /\ sudoku' = [sudoku EXCEPT ![Top.row][Top.col] = 0]
  /\ frames' = [frames EXCEPT ![Len(frames)].num = @ + 1]
  /\ solveLog' = [solveLog EXCEPT !.pc = "try"]
  /\ UNCHANGED sudokuFrame

NextSudoku == FindEmpty \/ AllFilled \/ Place \/ Skip \/ ReturnFalse \/ Backtrack

SpecSudoku == InitSudoku /\ [][NextSudoku]_vars

\* solve() runs on its own: a step that can be taken is taken
SpecSolve == InitSudoku /\ [][NextSudoku]_vars /\ WF_vars(NextSudoku)

TypeOK ==
  /\ maybes \in Seq(Maybes)
  /\ made \in Seq(Ctors) /\ Len(made) = Len(maybes)
  /\ output \in Outputs
  /\ outputPre \in Outputs
\* ------------------------------------------------------------- claims
\* the constructor call behind the instance the last call was made on
Self == made[call.self]

Other == made[call.other]

\* C1: FromJust() on an instance made by Just(v) returns exactly v and
\* does not throw.
C1_FromJustReturnsPayload ==
  (call.op = "FromJust" /\ Self.ctor = "Just")
    => (call.err = NoError /\ call.retVal = Self.arg)

C1_Witness ==
  call.op = "FromJust" /\ Self = MadeJust(2) /\ call.retVal = 2

\* C2: FromJust() and ToChecked() on an instance made by Nothing() throw
\* the Nothing error and return no value.
C2_NothingThrows ==
  (call.op \in {"FromJust", "ToChecked"} /\ Self.ctor = "Nothing")
    => (call.err = NothingError /\ call.retVal = undefined)

C2_Witness ==
  call.op = "ToChecked" /\ Self.ctor = "Nothing" /\ call.err = NothingError

\* C3: the only error is the Nothing error, and only FromJust/ToChecked on
\* a Nothing instance raise it; every other call, and FromJust/ToChecked on
\* a Just instance, completes without error.
C3_OnlyNothingExtractionThrows ==
  /\ call.err \in {NoError, NothingError}
  /\ call.err # NoError
       => (call.op \in {"FromJust", "ToChecked"} /\ Self.ctor = "Nothing")

C3_Witness ==
  /\ call.op = "ToChecked" /\ Self.ctor = "Just" /\ call.err = NoError
  /\ \E i \in Insts : made[i].ctor = "Nothing"

\* C4: FromMaybe(w) returns v on an instance made by Just(v) and w on an
\* instance made by Nothing().
C4_FromMaybe ==
  call.op = "FromMaybe"
    => call.retVal = (IF Self.ctor = "Just" THEN Self.arg ELSE call.arg)

C4_Witness ==
  call.op = "FromMaybe" /\ Self = MadeJust(1) /\ call.arg = 3 /\ call.retVal = 1

\* C5: IsJust() is true exactly on instances made by Just, IsNothing() is
\* true exactly on instances made by Nothing, and on every instance
\* IsNothing() is the negation of IsJust().
C5_IsJustIsNothing ==
  /\ call.op = "IsJust" => call.retBool = (Self.ctor = "Just")
  /\ call.op = "IsNothing" => call.retBool = (Self.ctor = "Nothing")
  /\ \A i \in Insts : IsNothing(maybes[i]) = ~IsJust(maybes[i])

C5_Witness ==
  call.op = "IsNothing" /\ Self.ctor = "Just" /\ call.retBool = FALSE

\* C6: To(output) without a key on an instance made by Just(v) returns true
\* and leaves output.value = v, whatever output.value was before.
C6_ToDefaultKey ==
  (call.op = "To" /\ Self.ctor = "Just")
    => (call.retBool /\ output[DefaultKey] = Self.arg)

C6_Witness ==
  /\ call.op = "To" /\ Self = MadeJust(2)
  /\ outputPre[DefaultKey] = 1 /\ output[DefaultKey] = 2

\* C7: To(output) and To(output, key) on an instance made by Nothing()
\* return false and leave every field of output as it was.
C7_ToOnNothingLeavesOutput ==
  (call.op \in {"To", "ToKey"} /\ Self.ctor = "Nothing")
    => (~call.retBool /\ output = outputPre)

C7_Witness ==
  /\ call.op = "ToKey" /\ call.key = "data" /\ Self.ctor = "Nothing"
  /\ outputPre["data"] # undefined /\ output = outputPre

\* C8: To(output, k) on an instance made by Just(v) sets output[k] = v and
\* changes no other field of output.
C8_ToKeyWritesOnlyKey ==
  (call.op = "ToKey" /\ Self.ctor = "Just")
    => /\ output[call.key] = Self.arg
       /\ \A k \in Keys \ {call.key} : output[k] = outputPre[k]

C8_Witness ==
  /\ call.op = "ToKey" /\ call.key = "data" /\ Self = MadeJust(3)
  /\ outputPre["value"] = 1 /\ output["value"] = 1 /\ output["data"] = 3

\* C9: equals is structural: two Nothing instances are equal, two Just
\* instances are equal iff their payloads are, and a Just and a Nothing
\* instance are not equal, in either order.
C9_EqualsStructural ==
  call.op = "equals"
    => call.retBool =
         CASE Self.ctor = "Nothing" /\ Other.ctor = "Nothing" -> TRUE
           [] Self.ctor = "Just" /\ Other.ctor = "Just" -> Self.arg = Other.arg
           [] OTHER -> FALSE

C9_Witness ==
  /\ call.op = "equals" /\ call.self # call.other
  /\ Self.ctor = "Nothing" /\ Other.ctor = "Nothing" /\ call.retBool

\* C10: the results of equals on three instances form an equivalence:
\* a.equals(a) is never false, a.equals(b) and b.equals(a) agree, and
\* a.equals(b) with b.equals(c) excludes a.equals(c) being false.
C10_EqualsEquivalence ==
  /\ \A i \in Triple : eqRes[<<i, i>>] # "false"
  /\ \A i, j \in Triple :
       (eqRes[<<i, j>>] # "none" /\ eqRes[<<j, i>>] # "none")
         => eqRes[<<i, j>>] = eqRes[<<j, i>>]
  /\ \A i, j, k \in Triple :
       (eqRes[<<i, j>>] = "true" /\ eqRes[<<j, k>>] = "true")
         => eqRes[<<i, k>>] # "false"

C10_Witness ==
  /\ made[1].ctor = "Just" /\ made[3].ctor = "Nothing"
  /\ eqRes[<<1, 2>>] = "true" /\ eqRes[<<2, 1>>] = "true"
  /\ eqRes[<<1, 1>>] = "true" /\ eqRes[<<3, 3>>] = "true"
  /\ eqRes[<<1, 3>>] = "false" /\ eqRes[<<3, 1>>] = "false"
\* C11: on every pair of instances, the result of notEquals is the
\* negation of the result of equals.
C11_NotEqualsNegatesEquals ==
  \A i, j \in Pair :
    (eqRes[<<i, j>>] # "none" /\ neqRes[<<i, j>>] # "none")
      => (neqRes[<<i, j>>] = "true") = (eqRes[<<i, j>>] = "false")

C11_Witness ==
  /\ made[1] = MadeJust(1) /\ made[2] = MadeJust(2)
  /\ eqRes[<<1, 2>>] = "false" /\ neqRes[<<1, 2>>] = "true"
  /\ eqRes[<<1, 1>>] = "true" /\ neqRes[<<1, 1>>] = "false"

\* C12: on every instance ToChecked() has the outcome of FromJust(): the
\* same value on a Just instance, the same error on a Nothing instance.
C12_ToCheckedAsFromJust ==
  \A i \in Pair :
    (extracted[<<i, "FromJust">>].done /\ extracted[<<i, "ToChecked">>].done)
      => extracted[<<i, "ToChecked">>] = extracted[<<i, "FromJust">>]

C12_Witness ==
  /\ made[1] = MadeJust(3) /\ made[2] = MadeNothing
  /\ extracted[<<1, "FromJust">>].done /\ extracted[<<1, "ToChecked">>].ret = 3
  /\ extracted[<<2, "FromJust">>].done
  /\ extracted[<<2, "ToChecked">>].err = NothingError
\* C13: an instance is immutable: after any sequence of calls, also calls
\* that threw and calls where it was the argument of equals, every instance
\* has the variant and the payload its constructor call gave it.
C13_InstancesImmutable ==
  /\ Len(maybes) = Len(made)
  /\ \A i \in Insts :
       /\ maybes[i].just = (made[i].ctor = "Just")
       /\ maybes[i].value = made[i].arg

C13_Witness ==
  /\ call.op = "FromJust" /\ call.err = NothingError
  /\ call.self = 2 /\ made[1] = MadeJust(2) /\ maybes[1].value = 2
  /\ output["value"] = 2 /\ output["data"] = 2

\* C14: every instance has a payload if and only if it is Just.
C14_PayloadIffJust ==
  \A i \in Insts : (maybes[i].value # undefined) = maybes[i].just

C14_Witness ==
  /\ Len(maybes) = 2 /\ ~maybes[1].just /\ maybes[2].just
  /\ call.op = "FromMaybe" /\ call.self = 1 /\ call.retVal = 3

\* C18: the boolean To returns is what IsJust() answers on that instance,
\* and when it is true the written field holds what FromJust() returns.
C18_ToAgreesWithIsJustAndFromJust ==
  call.op \in {"To", "ToKey"}
    => /\ call.retBool = IsJust(maybes[call.self])
       /\ call.retBool
            => /\ FromJust(maybes[call.self]).err = NoError
               /\ output[call.key] = FromJust(maybes[call.self]).ret

C18_Witness ==
  /\ call.op = "ToKey" /\ call.key = "value" /\ call.retBool
  /\ outputPre["value"] = 3 /\ output["value"] = 1
  /\ FromJust(maybes[call.self]).ret = 1
\* C16: every FromJust/ToChecked call on a Nothing instance puts exactly
\* one error before the caller, in that call: after n such calls the caller
\* has caught n errors, and the nth is caught in the nth call.
C16_OneErrorPerOffendingCall ==
  /\ thrown = offending
  /\ (call.op \in ExtractOps /\ Self.ctor = "Nothing") => call.err = NothingError

C16_Witness ==
  /\ offending = 2 /\ thrown = 2
  /\ call.op = "ToChecked" /\ call.err = NothingError

\* C17: FromJust() on an instance on which IsJust() has returned true, or
\* IsNothing() false, does not throw, whatever was called in between.
C17_CheckedFromJustDoesNotThrow ==
  (call.op = "FromJust" /\ call.self \in checked) => call.err = NoError

C17_Witness ==
  /\ call.op = "FromJust" /\ call.self = 1 /\ checked = {1}
  /\ call.retVal = 2 /\ thrown = 1 /\ output["data"] = 2
\* the positions of the array whose item the predicate accepts
Hits == {k \in 1..Len(find.array) : find.array[k] \in find.predicate}

FirstHit == CHOOSE k \in Hits : \A h \in Hits : k <= h

\* C19: findItem returns Just(x) for the first item x, in array order, that
\* the predicate accepts, and Nothing exactly when it accepts no item.
C19_FindItemFirstMatch ==
  find.pc \in {"result", "logged"}
    => /\ (find.result = Nothing) = (Hits = {})
       /\ Hits # {} => find.result = Just(find.array[FirstHit])

C19_Witness ==
  /\ find.pc = "result" /\ find.array = <<3, 2, 1>> /\ find.predicate = {1, 2}
  /\ find.result = Just(2)
\* C20: the promise of fetchData is never rejected; once the function has
\* finished it is fulfilled, with Just(body) when fetch gave an ok response
\* and the body was read, and with Nothing when fetch threw, the response
\* was not ok, or reading the body threw.
C20_FetchDataNeverRejects ==
  \A k \in Fetches :
    LET f == fetches[k] IN
    /\ f.promise # "rejected"
    /\ f.pc = "done" => f.promise = "fulfilled"
    /\ f.promise = "fulfilled"
         => /\ (f.fetched = "ok" /\ f.read = "read") => f.value = Just(f.body)
            /\ (f.fetched \in {"threw", "notOk"} \/ f.read = "threw")
                 => f.value = Nothing
            /\ f.fetched # "pending"
            /\ f.fetched = "ok" => f.read # "pending"

C20_Witness ==
  /\ Len(fetches) = 2
  /\ fetches[1].read = "threw" /\ fetches[1].value = Nothing
  /\ fetches[1].told = "Failed to fetch data"
  /\ fetches[2].value = Just(2) /\ fetches[2].promise = "fulfilled"
\* what a call gives a callback that runs alone on freshly made instances
AloneBool(c) ==
  CASE c.op = "IsJust" -> made[c.self].ctor = "Just"
    [] c.op = "IsNothing" -> made[c.self].ctor = "Nothing"
    [] c.op = "equals" ->
         /\ made[c.self].ctor = made[c.other].ctor
         /\ made[c.self].arg = made[c.other].arg
    [] OTHER -> FALSE

AloneVal(c) ==
  CASE c.op = "FromJust" -> made[c.self].arg
    [] c.op = "FromMaybe" ->
         IF made[c.self].ctor = "Just" THEN made[c.self].arg ELSE c.arg
    [] OTHER -> undefined

AloneErr(c) ==
  IF c.op = "FromJust" /\ made[c.self].ctor = "Nothing" THEN NothingError
  ELSE NoError

\* C15: under every interleaving of the callbacks' IsJust, IsNothing,
\* FromJust, FromMaybe and equals calls on the shared instances, each call
\* gives its callback the result it gives a callback running alone.
C15_SharedReadersAgree ==
  \A r \in Readers :
    readerCall[r].op # "none"
      => /\ readerCall[r].retBool = AloneBool(readerCall[r])
         /\ readerCall[r].retVal = AloneVal(readerCall[r])
         /\ readerCall[r].err = AloneErr(readerCall[r])

C15_Witness ==
  /\ made[1] = MadeJust(2) /\ made[2] = MadeNothing
  /\ readerCall[1].op = "FromJust" /\ readerCall[1].self = 1
  /\ readerCall[1].retVal = 2
  /\ readerCall[2].op = "IsJust" /\ readerCall[2].self = 1
  /\ readerCall[2].retBool

\* ------------------------------------------------- claims: ThemeSelect
\* one step of the cycle light -> dark -> auto -> light
CycleStep ==
  [t \in Theme |-> CASE t = "light" -> "dark"
                     [] t = "dark" -> "auto"
                     [] t = "auto" -> "light"]

RECURSIVE Advanced(_, _)
\* the theme k steps after theme t in the cycle
Advanced(t, k) == IF k = 0 THEN t ELSE CycleStep[Advanced(t, k - 1)]

\* C21: with localStorage available, after any number of clicks the
\* selected theme is the theme the page started with, advanced by
\* (number of clicks mod 3) steps of the cycle light -> dark -> auto -> light;
\* a click applies that theme.
C21_ClicksCycleThemes ==
  (localStorage.defined /\ themeLog.pc = "ready")
    => /\ loadTheme = Advanced(themeLog.start, themeLog.clicks % 3)
       /\ themeLog.event = "click" => themeLog.applied = loadTheme

C21_Witness ==
  /\ localStorage.defined
  /\ themeLog.start = "light"
  /\ themeLog.clicks = 4
  /\ themeLog.event = "click"
  /\ loadTheme = "dark"

\* C22: with localStorage available, loadTheme() after storeTheme(t)
\* returns t for light, dark and auto, auto being stored as the empty
\* string; loadTheme() returns auto for a missing key and for any stored
\* value other than the three theme names.
C22_StoreLoadRoundTrip ==
  localStorage.defined
    => /\ themeLog.applied # "none"
            => /\ loadTheme = themeLog.applied
               /\ themeLog.applied = "auto" => localStorage.item = Str("")
       /\ localStorage.item \notin {Str("light"), Str("dark"), Str("auto")}
            => loadTheme = "auto"

C22_Witness ==
  /\ localStorage.defined
  /\ themeLog.applied = "auto"
  /\ themeLog.pre.item = Str("dark")
  /\ localStorage.item = Str("")
  /\ loadTheme = "auto"

\* C23: after every onThemeChange(theme) call dataset.theme is light or
\* dark, never auto: it is theme when theme is light or dark, and the
\* preferred colour scheme at the time of the call when theme is auto.
C23_DatasetNeverAuto ==
  themeLog.applied # "none"
    => /\ dataset \in {"light", "dark"}
       /\ themeLog.applied \in {"light", "dark"} => dataset = themeLog.applied
       /\ themeLog.applied = "auto"
            => dataset = (IF themeLog.matched THEN "light" ELSE "dark")

C23_Witness ==
  /\ themeLog.event = "click"
  /\ themeLog.applied = "auto"
  /\ themeLog.pre.dataset = "dark"
  /\ dataset = "light"

\* C24: a change of the prefers-color-scheme setting re-applies the theme
\* only when the stored theme is auto; when the stored theme is light or
\* dark the event leaves dataset.theme, the stored value and the button
\* icon as they were.
C24_SchemeChangeOnlyForAuto ==
  (themeLog.event = "change" /\ localStorage.defined)
    => /\ parseTheme(themeLog.pre.item) \in {"light", "dark"}
            => /\ dataset = themeLog.pre.dataset
               /\ localStorage.item = themeLog.pre.item
               /\ iconClass = themeLog.pre.iconClass
       /\ parseTheme(themeLog.pre.item) = "auto"
            => /\ dataset = (IF matches THEN "light" ELSE "dark")
               /\ iconClass = "icon auto"

C24_Witness ==
  /\ themeLog.event = "change"
  /\ localStorage.defined
  /\ themeLog.pre.item = Str("dark")
  /\ matches
  /\ dataset = "dark"
  /\ iconClass = "icon dark"

\* C25: without localStorage, loadTheme() returns auto whatever
\* onThemeChange calls were made before, so every click applies light, and
\* no handler ever applies dark.
C25_NoStorageNeverDark ==
  ~localStorage.defined
    => /\ loadTheme = "auto"
       /\ themeLog.applied # "dark"
       /\ themeLog.event = "click"
            => (themeLog.applied = "light" /\ dataset = "light")

C25_Witness ==
  /\ ~localStorage.defined
  /\ themeLog.event = "click"
  /\ themeLog.clicks = 2
  /\ themeLog.pre.dataset = "light"
  /\ dataset = "light"

\* ------------------------------------------------- claims: BankAccount
\* C26: after any sequence of deposit and withdraw calls the balance is
\* never negative and equals the sum of the accepted deposits minus the sum
\* of the accepted withdrawals, and the number of transactions equals the
\* number of accepted calls.
C26_BalanceIsSumOfAccepted ==
  /\ balance >= 0
  /\ balance = bankLog.deposited - bankLog.withdrawn
  /\ Len(transactions) = bankLog.accepted

\* C27: a deposit or withdraw with a non-positive amount, and a withdraw
\* of more than the current balance, throws and leaves the balance and the
\* transaction list unchanged.
C27_RejectedCallsChangeNothing ==
  (\/ bankLog.op \in {"deposit", "withdraw"} /\ bankLog.amount <= 0
   \/ bankLog.op = "withdraw" /\ bankLog.amount > bankLog.pre.balance)
    => /\ bankLog.thrown # "none"
       /\ balance = bankLog.pre.balance
       /\ transactions = bankLog.pre.transactions

C27_Witness ==
  /\ bankLog.op = "withdraw"
  /\ bankLog.pre.balance = 1
  /\ bankLog.amount = 2
  /\ bankLog.thrown = "Exception"
  /\ balance = 1

\* ----------------------------------------------- claims: Book, Library
\* the book the last Library call was about, before and after the call
BookPre == libraryLog.pre[libraryLog.isbn]

BookPost == books[libraryLog.isbn]

\* checkOut on an unavailable book throws and leaves it unavailable, an
\* accepted checkOut finds the book available, and returnBook makes the
\* book available
CheckOutAndReturn ==
  /\ (libraryLog.op = "checkOutBook" /\ isset(libraryLog.pre, libraryLog.isbn))
       => /\ ~BookPre.isAvailable
               => (libraryLog.thrown # "none" /\ ~BookPost.isAvailable)
          /\ libraryLog.thrown = "none"
               => (BookPre.isAvailable /\ ~BookPost.isAvailable)
  /\ (libraryLog.op = "returnBook" /\ isset(libraryLog.pre, libraryLog.isbn))
       => (libraryLog.thrown = "none" /\ BookPost.isAvailable)

Units ==
  {{<<r, c>> : c \in 0..8} : r \in 0..8}
    \cup {{<<r, c>> : r \in 0..8} : c \in 0..8}
    \cup {{<<3 * a + i, 3 * b + j>> : i, j \in 0..2} : a, b \in 0..2}

\* no row, column or subgrid holds the same number twice
NoConflict(grid) ==
  \A unit \in Units : \A p, q \in unit :
    (p # q /\ grid[p[1]][p[2]] # 0) => grid[p[1]][p[2]] # grid[q[1]][q[2]]

NoZero(grid) == \A r, c \in 0..8 : grid[r][c] \in 1..9

\* the grids that fill the empty cells of the input with numbers 1 to 9
Completions(grid) ==
  LET blanks == {cell \in (0..8) \X (0..8) : grid[cell[1]][cell[2]] = 0}
  IN  {[r \in 0..8 |-> [c \in 0..8 |->
          IF <<r, c>> \in blanks THEN fill[<<r, c>>] ELSE grid[r][c]]] :
       fill \in [blanks -> 1..9]}

\* C29: when a solveHelper call returns false the grid equals the grid at
\* the entry of that call, every cell written since being 0 again; the cells
\* that are non-zero in the input keep their numbers throughout, whether
\* the search succeeds or fails.
C29_FailedSearchRestoresGrid ==
  /\ (solveLog.pc = "returned" \/ solveLog.result = "no solution")
       => sudoku = solveLog.entry
  /\ solveLog.result = "no solution" => sudoku = solveLog.input
  /\ \A r, c \in 0..8 :
       solveLog.input[r][c] # 0 => sudoku[r][c] = solveLog.input[r][c]

C29_Witness ==
  /\ solveLog.result = "no solution"
  /\ solveLog.placed >= 1
  /\ sudoku = solveLog.input
  /\ \E r, c \in 0..8 : sudoku[r][c] = 0

C30_Safe ==
  NoConflict(solveLog.input)
    => /\ solveLog.result = "solved" => (NoZero(sudoku) /\ NoConflict(sudoku))
       /\ solveLog.result = "no solution"
            => ~\E grid \in Completions(solveLog.input) : NoConflict(grid)

\* C30: for a 9x9 input whose given numbers do not conflict the search
\* terminates; when it reports success no cell is 0 and no row, column or
\* 3x3 subgrid holds a number twice; it reports that no solution exists only
\* when the input has no valid completion.
C30_SearchTerminatesAndIsRight ==
  []C30_Safe /\ <>(solveLog.pc = "done")

C30_Witness ==
  /\ NoConflict(solveLog.input)
  /\ solveLog.pc = "done"
  /\ solveLog.result = "solved"
  /\ solveLog.placed >= 4
  /\ sudoku = Rows(Solved)

====
